---------------------------- MODULE Spec2Model ----------------------------
(***************************************************************************)
(* HTTP message signatures (package httpsign): the Signer / Verifier       *)
(* lifecycle, their configuration objects and the crypto layer.            *)
(*                                                                         *)
(* Go values are modelled as follows.                                      *)
(*   - A pointer is an index into a heap (a sequence); 0 is nil.           *)
(*     signCfgs, verifyCfgs, signers and verifiers are heaps of structs,   *)
(*     keyMem is the heap of byte arrays that back []byte key slices.      *)
(*   - A []byte key slice is the index of its backing array (0: nil).      *)
(*     An array is [len, bytes]: its length and an abstract identifier of  *)
(*     its content; writing a byte changes the content, never the length.  *)
(*   - An RSA / ECDSA key is [kind, id]: id names the key pair, so a       *)
(*     private and a public key match iff they carry the same id.          *)
(*   - A (value, error) result is a record with an err field; "" is nil.   *)
(*   - time.Duration is counted in milliseconds.                           *)
(***************************************************************************)
EXTENDS Integers, Sequences, FiniteSets, TLC

VARIABLES
    keyMem,      \* heap of byte arrays owned by the caller (key material)
    signCfgs,    \* heap of SignConfig structs
    verifyCfgs,  \* heap of VerifyConfig structs
    heldSign,    \* the caller's *SignConfig variable (0: nil)
    heldVerify,  \* the caller's *VerifyConfig variable (0: nil)
    signers,     \* heap of Signer structs
    verifiers,   \* heap of Verifier structs
    wire,        \* the signed bytes and signature in flight to a verifier
    ret          \* the last call: its name, arguments and return values

vars == <<keyMem, signCfgs, verifyCfgs, heldSign, heldVerify, signers,
          verifiers, wire, ret>>

-----------------------------------------------------------------------------
(* Bounds of the model *)

\* Signer / Verifier objects built in the crypto, constructor and client runs.
MaxObjs == 1
\* Signer / Verifier objects built in the configuration runs.
MaxCfgObjs == 2

-----------------------------------------------------------------------------
(* Program constants *)

\* crypto.go: len(key) < 64
MinKeyLen == 64
\* time.Second, in milliseconds
Second == 1000

NilRef == 0

\* The byte strings handed to sign and verify: the empty string and two
\* strings that differ in one byte.
Buffs == {<<>>, <<0>>, <<1>>}

\* Outcomes of the random source read by the randomised signature schemes.
RandVals == {1, 2}

KeyIDs == {"", "key1"}

FieldLists == {<<"@method">>, <<"@method", "content-digest">>}

\* The caller's key material: two different 64-byte keys, a 65-byte key,
\* a 63-byte key, an empty (non-nil) slice and a copy of the first key.
KeyArrays ==
    << [len |-> MinKeyLen,     bytes |-> 1],
       [len |-> MinKeyLen,     bytes |-> 2],
       [len |-> MinKeyLen + 1, bytes |-> 1],
       [len |-> MinKeyLen - 1, bytes |-> 1],
       [len |-> 0,             bytes |-> 0],
       [len |-> MinKeyLen,     bytes |-> 1] >>

\* []byte arguments: nil or a slice of one of the caller's arrays.
ByteSlices == {NilRef} \cup DOMAIN KeyArrays
\* Slices long enough for HMAC.
GoodSlices == {a \in DOMAIN KeyArrays : KeyArrays[a].len >= MinKeyLen}
\* The keys of the signing peer, and those of the verifying peer: its own
\* copy of the first key, and the second key.
SignerSlices == {1, 2}
VerifierSlices == {2, 6}

KeyPairs == {1, 2}

NilKey == [kind |-> "nil", id |-> 0]
BytesKey(a) == IF a = NilRef THEN NilKey ELSE [kind |-> "bytes", id |-> a]
RSAPrivateKey(p) == [kind |-> "rsa-priv", id |-> p]
RSAPublicKey(p) == [kind |-> "rsa-pub", id |-> p]
ECDSAPrivateKey(p) == [kind |-> "ecdsa-priv", id |-> p]
ECDSAPublicKey(p) == [kind |-> "ecdsa-pub", id |-> p]

\* len(key) of a []byte; a nil slice has length 0.
LenOf(key) == IF key.kind = "bytes" THEN keyMem[key.id].len ELSE 0

-----------------------------------------------------------------------------
(* config.go *)

\* a nil *requestResponse
NilRR == [isNil |-> TRUE, name |-> "", signature |-> ""]
requestResponse(name, signature) ==
    [isNil |-> FALSE, name |-> name, signature |-> signature]

\* Mutant of NewSignConfig: the zero value &SignConfig{}.
NewSignConfig_ZeroValue ==
    [signAlg         |-> FALSE,
     signCreated     |-> FALSE,
     fakeCreated     |-> 0,
     expires         |-> 0,
     nonce           |-> "",
     requestResponse |-> NilRR]

NewSignConfig ==
    [signAlg         |-> TRUE,
     signCreated     |-> TRUE,
     fakeCreated     |-> 0,
     expires         |-> 0,
     nonce           |-> "",
     requestResponse |-> NilRR]

\* Mutant of NewVerifyConfig: the not-newer-than window of the setter's
\* documentation, 1,000 ms.
NewVerifyConfig_OneSecond ==
    [verifyCreated   |-> TRUE,
     notNewerThan    |-> 1 * Second,
     notOlderThan    |-> 10 * Second,
     rejectExpired   |-> TRUE,
     allowedAlgs     |-> <<>>,
     requestResponse |-> NilRR,
     verifyKeyID     |-> TRUE,
     dateWithin      |-> 0]

NewVerifyConfig ==
    [verifyCreated   |-> TRUE,
     notNewerThan    |-> 2 * Second,
     notOlderThan    |-> 10 * Second,
     rejectExpired   |-> TRUE,
     allowedAlgs     |-> <<>>,
     requestResponse |-> NilRR,
     verifyKeyID     |-> TRUE,
     dateWithin      |-> 0]

\* func (c *SignConfig) SignAlg(b bool) *SignConfig
SignConfig_SignAlg(c, b) == [c EXCEPT !.signAlg = b]

\* func (c *SignConfig) SignCreated(b bool) *SignConfig
SignConfig_SignCreated(c, b) == [c EXCEPT !.signCreated = b]

\* func (c *SignConfig) setFakeCreated(ts int64) *SignConfig
SignConfig_setFakeCreated(c, ts) == [c EXCEPT !.fakeCreated = ts]

\* func (c *SignConfig) SetExpires(expires int64) *SignConfig
SignConfig_SetExpires(c, expires) == [c EXCEPT !.expires = expires]

\* func (c *SignConfig) SetNonce(nonce string) *SignConfig
SignConfig_SetNonce(c, nonce) == [c EXCEPT !.nonce = nonce]

\* func (c *SignConfig) SetRequestResponse(name, signature string) *SignConfig
SignConfig_SetRequestResponse(c, name, signature) ==
    [c EXCEPT !.requestResponse = requestResponse(name, signature)]

\* func (v *VerifyConfig) SetNotNewerThan(notNewerThan time.Duration) *VerifyConfig
VerifyConfig_SetNotNewerThan(v, notNewerThan) ==
    [v EXCEPT !.notNewerThan = notNewerThan]

\* func (v *VerifyConfig) SetNotOlderThan(notOlderThan time.Duration) *VerifyConfig
VerifyConfig_SetNotOlderThan(v, notOlderThan) ==
    [v EXCEPT !.notOlderThan = notOlderThan]

\* func (v *VerifyConfig) SetVerifyCreated(verifyCreated bool) *VerifyConfig
VerifyConfig_SetVerifyCreated(v, verifyCreated) ==
    [v EXCEPT !.verifyCreated = verifyCreated]

\* func (v *VerifyConfig) SetRejectExpired(rejectExpired bool) *VerifyConfig
VerifyConfig_SetRejectExpired(v, rejectExpired) ==
    [v EXCEPT !.rejectExpired = rejectExpired]

\* func (v *VerifyConfig) SetAllowedAlgs(allowedAlgs []string) *VerifyConfig
VerifyConfig_SetAllowedAlgs(v, allowedAlgs) ==
    [v EXCEPT !.allowedAlgs = allowedAlgs]

\* func (v *VerifyConfig) SetRequestResponse(name, signature string) *VerifyConfig
VerifyConfig_SetRequestResponse(v, name, signature) ==
    [v EXCEPT !.requestResponse = requestResponse(name, signature)]

\* Mutant of VerifyConfig.SetVerifyKeyID: writes the field of
\* SetVerifyCreated.
VerifyConfig_SetVerifyKeyID_WrongField(v, verify) ==
    [v EXCEPT !.verifyCreated = verify]

\* func (v *VerifyConfig) SetVerifyKeyID(verify bool) *VerifyConfig
VerifyConfig_SetVerifyKeyID(v, verify) == [v EXCEPT !.verifyKeyID = verify]

\* func (v *VerifyConfig) SetVerifyDateWithin(d time.Duration) *VerifyConfig
VerifyConfig_SetVerifyDateWithin(v, d) == [v EXCEPT !.dateWithin = d]

-----------------------------------------------------------------------------
(* crypto.go: the constructors *)

SignerErr(msg) == [err |-> msg, obj |-> NilRef, cfgs |-> signCfgs, new |-> <<>>]

\* if config == nil { config = NewSignConfig() }; return &Signer{...}, nil
SignerOk(keyID, key, alg, config, fields) ==
    LET fresh == config = NilRef
        c == IF fresh THEN Len(signCfgs) + 1 ELSE config
    IN  [err  |-> "",
         obj  |-> Len(signers) + 1,
         cfgs |-> IF fresh THEN Append(signCfgs, NewSignConfig) ELSE signCfgs,
         new  |-> <<[keyID |-> keyID, key |-> key, alg |-> alg,
                     config |-> c, fields |-> fields]>>]

NewHMACSHA256Signer(keyID, key, config, fields) ==
    IF key = NilKey \/ LenOf(key) < MinKeyLen
    THEN SignerErr("key must be at least 64 bytes long")
    ELSE IF keyID = ""
    THEN SignerErr("keyID must not be empty")
    ELSE SignerOk(keyID, key, "hmac-sha256", config, fields)

NewRSASigner(keyID, key, config, fields) ==
    IF key = NilKey
    THEN SignerErr("key must not be nil")
    ELSE IF keyID = ""
    THEN SignerErr("keyID must not be empty")
    ELSE SignerOk(keyID, key, "rsa-v1_5-sha256", config, fields)

\* Mutant of NewRSAPSSSigner: no check of keyID, as in the Verifier
\* constructors.
NewRSAPSSSigner_NoKeyID(keyID, key, config, fields) ==
    IF key = NilKey
    THEN SignerErr("key must not be nil")
    ELSE SignerOk(keyID, key, "rsa-pss-sha512", config, fields)

NewRSAPSSSigner(keyID, key, config, fields) ==
    IF key = NilKey
    THEN SignerErr("key must not be nil")
    ELSE IF keyID = ""
    THEN SignerErr("keyID must not be empty")
    ELSE SignerOk(keyID, key, "rsa-pss-sha512", config, fields)

NewP256Signer(keyID, key, config, fields) ==
    IF key = NilKey
    THEN SignerErr("key must not be nil")
    ELSE IF keyID = ""
    THEN SignerErr("keyID must not be empty")
    ELSE SignerOk(keyID, key, "ecdsa-p256-sha256", config, fields)

VerifierErr(msg) == [err |-> msg, obj |-> NilRef, cfgs |-> verifyCfgs, new |-> <<>>]

\* if config == nil { config = NewVerifyConfig() }; return &Verifier{...}, nil
VerifierOk(keyID, key, alg, config, fields) ==
    LET fresh == config = NilRef
        c == IF fresh THEN Len(verifyCfgs) + 1 ELSE config
    IN  [err  |-> "",
         obj  |-> Len(verifiers) + 1,
         cfgs |-> IF fresh THEN Append(verifyCfgs, NewVerifyConfig) ELSE verifyCfgs,
         new  |-> <<[keyID |-> keyID, key |-> key, alg |-> alg,
                     c |-> c, f |-> fields]>>]

\* Mutant of NewHMACSHA256Verifier: only the nil check, as in the other
\* Verifier constructors.
NewHMACSHA256Verifier_NoLength(keyID, key, config, fields) ==
    IF key = NilKey
    THEN VerifierErr("key must not be nil")
    ELSE VerifierOk(keyID, key, "hmac-sha256", config, fields)

NewHMACSHA256Verifier(keyID, key, config, fields) ==
    IF key = NilKey
    THEN VerifierErr("key must not be nil")
    ELSE IF LenOf(key) < MinKeyLen
    THEN VerifierErr("key must be at least 64 bytes long")
    ELSE VerifierOk(keyID, key, "hmac-sha256", config, fields)

NewRSAVerifier(keyID, key, config, fields) ==
    IF key = NilKey
    THEN VerifierErr("key must not be nil")
    ELSE VerifierOk(keyID, key, "rsa-v1_5-sha256", config, fields)

\* Mutant of NewRSAPSSVerifier: the algorithm identifier names a digest
\* that verify has no case for.
NewRSAPSSVerifier_WrongAlg(keyID, key, config, fields) ==
    IF key = NilKey
    THEN VerifierErr("key must not be nil")
    ELSE VerifierOk(keyID, key, "rsa-pss-sha256", config, fields)

NewRSAPSSVerifier(keyID, key, config, fields) ==
    IF key = NilKey
    THEN VerifierErr("key must not be nil")
    ELSE VerifierOk(keyID, key, "rsa-pss-sha512", config, fields)

NewP256Verifier(keyID, key, config, fields) ==
    IF key = NilKey
    THEN VerifierErr("key must not be nil")
    ELSE VerifierOk(keyID, key, "ecdsa-p256-sha256", config, fields)

\* The record of a call: what was called, with which arguments, and what
\* it returned.
Call(op, arg, obj, err) ==
    [op |-> op, arg |-> arg, obj |-> obj, err |-> err, ok |-> FALSE, status |-> ""]

CtorArg(keyID, key, config) == [keyID |-> keyID, key |-> key, config |-> config]

\* A Signer constructor returns r: the new Signer (if any) is on the heap.
ReturnSigner(op, arg, r) ==
    /\ signCfgs' = r.cfgs
    /\ signers' = signers \o r.new
    /\ ret' = Call(op, arg, r.obj, r.err)
    /\ UNCHANGED <<keyMem, verifyCfgs, heldSign, heldVerify, verifiers, wire>>

ReturnVerifier(op, arg, r) ==
    /\ verifyCfgs' = r.cfgs
    /\ verifiers' = verifiers \o r.new
    /\ ret' = Call(op, arg, r.obj, r.err)
    /\ UNCHANGED <<keyMem, signCfgs, heldSign, heldVerify, signers, wire>>

NewHMACSHA256SignerCall(keyID, key, config, fields) ==
    ReturnSigner("NewHMACSHA256Signer", CtorArg(keyID, key, config),
                 NewHMACSHA256Signer(keyID, key, config, fields))

NewRSASignerCall(keyID, key, config, fields) ==
    ReturnSigner("NewRSASigner", CtorArg(keyID, key, config),
                 NewRSASigner(keyID, key, config, fields))

NewRSAPSSSignerCall(keyID, key, config, fields) ==
    ReturnSigner("NewRSAPSSSigner", CtorArg(keyID, key, config),
                 NewRSAPSSSigner(keyID, key, config, fields))

NewP256SignerCall(keyID, key, config, fields) ==
    ReturnSigner("NewP256Signer", CtorArg(keyID, key, config),
                 NewP256Signer(keyID, key, config, fields))

NewHMACSHA256VerifierCall(keyID, key, config, fields) ==
    ReturnVerifier("NewHMACSHA256Verifier", CtorArg(keyID, key, config),
                   NewHMACSHA256Verifier(keyID, key, config, fields))

NewRSAVerifierCall(keyID, key, config, fields) ==
    ReturnVerifier("NewRSAVerifier", CtorArg(keyID, key, config),
                   NewRSAVerifier(keyID, key, config, fields))

NewRSAPSSVerifierCall(keyID, key, config, fields) ==
    ReturnVerifier("NewRSAPSSVerifier", CtorArg(keyID, key, config),
                   NewRSAPSSVerifier(keyID, key, config, fields))

NewP256VerifierCall(keyID, key, config, fields) ==
    ReturnVerifier("NewP256Verifier", CtorArg(keyID, key, config),
                   NewP256Verifier(keyID, key, config, fields))

-----------------------------------------------------------------------------
(* The crypto primitives that crypto.go calls.  They are ideal: a digest   *)
(* or a MAC determines its input (and key), and a signature verifies iff   *)
(* it was made over the same digest with the private key of the pair.      *)
(* A signature is [scheme, key, digest, salt, bad]; bad marks bytes that   *)
(* were altered after signing.                                             *)

\* What a key is to a primitive: the bytes of a slice, or the key pair.
KeyIdent(key) ==
    IF key.kind = "bytes"
    THEN <<"bytes", keyMem[key.id].len, keyMem[key.id].bytes>>
    ELSE IF key.kind \in {"rsa-priv", "rsa-pub"}
    THEN <<"rsa", key.id, 0>>
    ELSE IF key.kind \in {"ecdsa-priv", "ecdsa-pub"}
    THEN <<"ecdsa", key.id, 0>>
    ELSE <<"nil", 0, 0>>

NoDigest == [h |-> "none", m |-> <<>>]
NoSig == [scheme |-> "none", key |-> <<"nil", 0, 0>>, digest |-> NoDigest,
          salt |-> 0, bad |-> FALSE]

\* sha256.Sum256(buff)
SHA256(buff) == [h |-> "sha256", m |-> buff]
\* sha512.Sum512(buff)
SHA512(buff) == [h |-> "sha512", m |-> buff]

\* mac := hmac.New(sha256.New, key); mac.Write(buff); mac.Sum(nil)
HMACSHA256(key, buff) ==
    [scheme |-> "hmac-sha256", key |-> KeyIdent(key),
     digest |-> [h |-> "hmac-sha256", m |-> buff], salt |-> 0, bad |-> FALSE]

\* rsa.SignPKCS1v15(nil, key, crypto.SHA256, hashed): deterministic
rsaSignPKCS1v15(key, hashed) ==
    [sig |-> [scheme |-> "rsa-v1_5", key |-> KeyIdent(key), digest |-> hashed,
              salt |-> 0, bad |-> FALSE],
     err |-> ""]

\* rsa.SignPSS(rand.Reader, key, crypto.SHA512, hashed, nil): salted from rnd
rsaSignPSS(rnd, key, hashed) ==
    [sig |-> [scheme |-> "rsa-pss", key |-> KeyIdent(key), digest |-> hashed,
              salt |-> rnd, bad |-> FALSE],
     err |-> ""]

\* rsa.VerifyPKCS1v15(key, crypto.SHA256, hashed, sig): nil or an error
rsaVerifyPKCS1v15(key, hashed, sig) ==
    IF /\ sig.scheme = "rsa-v1_5"
       /\ sig.key = KeyIdent(key)
       /\ sig.digest = hashed
       /\ ~sig.bad
    THEN ""
    ELSE "crypto/rsa: verification error"

\* rsa.VerifyPSS(key, crypto.SHA512, hashed, sig, nil): nil or an error
rsaVerifyPSS(key, hashed, sig) ==
    IF /\ sig.scheme = "rsa-pss"
       /\ sig.key = KeyIdent(key)
       /\ sig.digest = hashed
       /\ ~sig.bad
    THEN ""
    ELSE "crypto/rsa: verification error"

\* ecdsaSignRaw(rand.Reader, key, hashed): the raw r||s signature
ecdsaSignRaw(rnd, key, hashed) ==
    [sig |-> [scheme |-> "ecdsa-raw", key |-> KeyIdent(key), digest |-> hashed,
              salt |-> rnd, bad |-> FALSE],
     err |-> "", panic |-> FALSE]

\* ecdsaVerifyRaw(key, hashed, sig): whether r||s verifies
ecdsaVerifyRaw(key, hashed, sig) ==
    [ok |-> /\ sig.scheme = "ecdsa-raw"
            /\ sig.key = KeyIdent(key)
            /\ sig.digest = hashed
            /\ ~sig.bad,
     err |-> "", panic |-> FALSE]

-----------------------------------------------------------------------------
(* crypto.go: Signer.sign and Verifier.verify *)

\* A failed type assertion key.(T) panics.
SignPanic == [sig |-> NoSig, err |-> "", panic |-> TRUE]
VerifyPanic == [ok |-> FALSE, err |-> "", panic |-> TRUE]

signHMAC(s, buff) ==
    IF s.key.kind # "bytes" THEN SignPanic
    ELSE [sig |-> HMACSHA256(s.key, buff), err |-> "", panic |-> FALSE]

signRSA(s, buff) ==
    IF s.key.kind # "rsa-priv" THEN SignPanic
    ELSE LET hashed == SHA256(buff)
             r == rsaSignPKCS1v15(s.key, hashed)
         IN  IF r.err # ""
             THEN [sig |-> NoSig, err |-> "RSA signature failed", panic |-> FALSE]
             ELSE [sig |-> r.sig, err |-> "", panic |-> FALSE]

\* Mutant of signRSAPSS: digests with SHA-256, which VerifyPSS does not expect.
signRSAPSS_SHA256(s, buff, rnd) ==
    IF s.key.kind # "rsa-priv" THEN SignPanic
    ELSE LET hashed == SHA256(buff)
             r == rsaSignPSS(rnd, s.key, hashed)
         IN  IF r.err # ""
             THEN [sig |-> NoSig, err |-> "RSA-PSS signature failed", panic |-> FALSE]
             ELSE [sig |-> r.sig, err |-> "", panic |-> FALSE]

signRSAPSS(s, buff, rnd) ==
    IF s.key.kind # "rsa-priv" THEN SignPanic
    ELSE LET hashed == SHA512(buff)
             r == rsaSignPSS(rnd, s.key, hashed)
         IN  IF r.err # ""
             THEN [sig |-> NoSig, err |-> "RSA-PSS signature failed", panic |-> FALSE]
             ELSE [sig |-> r.sig, err |-> "", panic |-> FALSE]

signP256(s, buff, rnd) ==
    IF s.key.kind # "ecdsa-priv" THEN SignPanic
    ELSE LET hashed == SHA256(buff)
         IN  ecdsaSignRaw(rnd, s.key, hashed)

\* func (s Signer) sign(buff []byte) ([]byte, error); rnd is what the call
\* reads from rand.Reader.
sign(s, buff, rnd) ==
    CASE s.alg = "hmac-sha256" -> signHMAC(s, buff)
      [] s.alg = "rsa-v1_5-sha256" -> signRSA(s, buff)
      [] s.alg = "rsa-pss-sha512" -> signRSAPSS(s, buff, rnd)
      [] s.alg = "ecdsa-p256-sha256" -> signP256(s, buff, rnd)
      [] OTHER -> [sig |-> NoSig, err |-> "sign: unknown algorithm",
                   panic |-> FALSE]

\* Mutant of verifyHMAC: compares what was authenticated and forgets the key.
verifyHMAC_Unkeyed(v, buff, sig) ==
    IF v.key.kind # "bytes" THEN VerifyPanic
    ELSE [ok |-> HMACSHA256(v.key, buff).digest = sig.digest /\ ~sig.bad,
          err |-> "", panic |-> FALSE]

\* return bytes.Equal(mac.Sum(nil), sig), nil
verifyHMAC(v, buff, sig) ==
    IF v.key.kind # "bytes" THEN VerifyPanic
    ELSE [ok |-> HMACSHA256(v.key, buff) = sig, err |-> "", panic |-> FALSE]

verifyRSA(v, buff, sig) ==
    IF v.key.kind # "rsa-pub" THEN VerifyPanic
    ELSE LET hashed == SHA256(buff)
             err == rsaVerifyPKCS1v15(v.key, hashed, sig)
         IN  IF err # ""
             THEN [ok |-> FALSE, err |-> "RSA verification failed: " \o err,
                   panic |-> FALSE]
             ELSE [ok |-> TRUE, err |-> "", panic |-> FALSE]

verifyRSAPSS(v, buff, sig) ==
    IF v.key.kind # "rsa-pub" THEN VerifyPanic
    ELSE LET hashed == SHA512(buff)
             err == rsaVerifyPSS(v.key, hashed, sig)
         IN  IF err # ""
             THEN [ok |-> FALSE, err |-> "RSA-PSS verification failed: " \o err,
                   panic |-> FALSE]
             ELSE [ok |-> TRUE, err |-> "", panic |-> FALSE]

verifyP256(v, buff, sig) ==
    IF v.key.kind # "ecdsa-pub" THEN VerifyPanic
    ELSE LET hashed == SHA256(buff)
         IN  ecdsaVerifyRaw(v.key, hashed, sig)

\* func (v Verifier) verify(buff []byte, sig []byte) (bool, error)
verify(v, buff, sig) ==
    CASE v.alg = "hmac-sha256" -> verifyHMAC(v, buff, sig)
      [] v.alg = "rsa-v1_5-sha256" -> verifyRSA(v, buff, sig)
      [] v.alg = "rsa-pss-sha512" -> verifyRSAPSS(v, buff, sig)
      [] v.alg = "ecdsa-p256-sha256" -> verifyP256(v, buff, sig)
      [] OTHER -> [ok |-> FALSE, err |-> "verify: unknown algorithm",
                   panic |-> FALSE]

\* s.sign(buff) on Signer i; what it returns is sent to the peer.
SignCall(i, buff, rnd) ==
    LET r == sign(signers[i], buff, rnd)
    IN  /\ ret' = [Call("sign", [signer |-> i, buff |-> buff], i, r.err)
                     EXCEPT !.ok = ~r.panic /\ r.err = "",
                            !.status = IF r.panic THEN "panic" ELSE ""]
        /\ wire' = IF ~r.panic /\ r.err = ""
                   THEN [sent |-> TRUE, buff |-> buff, sig |-> r.sig,
                         signer |-> i, signedBuff |-> buff, signedSig |-> r.sig]
                   ELSE wire
        /\ UNCHANGED <<keyMem, signCfgs, verifyCfgs, heldSign, heldVerify,
                       signers, verifiers>>

\* v.verify(buff, sig) on Verifier j, with what arrived.
VerifyCall(j) ==
    /\ wire.sent
    /\ LET r == verify(verifiers[j], wire.buff, wire.sig)
       IN  ret' = [Call("verify", [verifier |-> j], j, r.err)
                     EXCEPT !.ok = r.ok, !.status = IF r.panic THEN "panic" ELSE ""]
    /\ UNCHANGED <<keyMem, signCfgs, verifyCfgs, heldSign, heldVerify,
                   signers, verifiers, wire>>

\* In flight, a byte of the signature is flipped.
TamperSignature ==
    /\ wire.sent
    /\ ~wire.sig.bad
    /\ wire' = [wire EXCEPT !.sig.bad = TRUE]
    /\ ret' = Call("tamper", <<>>, NilRef, "")
    /\ UNCHANGED <<keyMem, signCfgs, verifyCfgs, heldSign, heldVerify,
                   signers, verifiers>>

\* In flight, the signed bytes are replaced by other bytes.
TamperMessage(buff) ==
    /\ wire.sent
    /\ buff # wire.buff
    /\ wire' = [wire EXCEPT !.buff = buff]
    /\ ret' = Call("tamper", <<>>, NilRef, "")
    /\ UNCHANGED <<keyMem, signCfgs, verifyCfgs, heldSign, heldVerify,
                   signers, verifiers>>

-----------------------------------------------------------------------------
(* The caller's calls on configuration objects and on its key bytes *)

\* cfg := NewSignConfig()
NewSignConfigCall ==
    /\ heldSign = NilRef
    /\ signCfgs' = Append(signCfgs, NewSignConfig)
    /\ heldSign' = Len(signCfgs) + 1
    /\ ret' = Call("NewSignConfig", <<>>, Len(signCfgs) + 1, "")
    /\ UNCHANGED <<keyMem, verifyCfgs, heldVerify, signers, verifiers, wire>>

\* cfg := NewVerifyConfig()
NewVerifyConfigCall ==
    /\ heldVerify = NilRef
    /\ verifyCfgs' = Append(verifyCfgs, NewVerifyConfig)
    /\ heldVerify' = Len(verifyCfgs) + 1
    /\ ret' = Call("NewVerifyConfig", <<>>, Len(verifyCfgs) + 1, "")
    /\ UNCHANGED <<keyMem, signCfgs, heldSign, signers, verifiers, wire>>

\* A setter called with arg on the caller's *SignConfig: the struct it
\* points to becomes c, and the same pointer is returned.
SignSetterCall(op, arg, c) ==
    /\ heldSign # NilRef
    /\ signCfgs' = [signCfgs EXCEPT ![heldSign] = c]
    /\ ret' = Call(op, arg, heldSign, "")
    /\ UNCHANGED <<keyMem, verifyCfgs, heldSign, heldVerify, signers,
                   verifiers, wire>>

VerifySetterCall(op, arg, v) ==
    /\ heldVerify # NilRef
    /\ verifyCfgs' = [verifyCfgs EXCEPT ![heldVerify] = v]
    /\ ret' = Call(op, arg, heldVerify, "")
    /\ UNCHANGED <<keyMem, signCfgs, heldSign, heldVerify, signers,
                   verifiers, wire>>

\* The struct behind a pointer; no struct behind nil.
SignCfgAt(a) == IF a \in DOMAIN signCfgs THEN signCfgs[a] ELSE NewSignConfig
VerifyCfgAt(a) == IF a \in DOMAIN verifyCfgs THEN verifyCfgs[a] ELSE NewVerifyConfig

SignAlgCall(b) ==
    SignSetterCall("SignConfig.SignAlg", b,
                   SignConfig_SignAlg(SignCfgAt(heldSign), b))
SignCreatedCall(b) ==
    SignSetterCall("SignConfig.SignCreated", b,
                   SignConfig_SignCreated(SignCfgAt(heldSign), b))
setFakeCreatedCall(ts) ==
    SignSetterCall("SignConfig.setFakeCreated", ts,
                   SignConfig_setFakeCreated(SignCfgAt(heldSign), ts))
SetExpiresCall(expires) ==
    SignSetterCall("SignConfig.SetExpires", expires,
                   SignConfig_SetExpires(SignCfgAt(heldSign), expires))
SetNonceCall(nonce) ==
    SignSetterCall("SignConfig.SetNonce", nonce,
                   SignConfig_SetNonce(SignCfgAt(heldSign), nonce))
SignSetRequestResponseCall(name, signature) ==
    SignSetterCall("SignConfig.SetRequestResponse", <<name, signature>>,
                   SignConfig_SetRequestResponse(SignCfgAt(heldSign), name, signature))

SetNotNewerThanCall(d) ==
    VerifySetterCall("VerifyConfig.SetNotNewerThan", d,
                     VerifyConfig_SetNotNewerThan(VerifyCfgAt(heldVerify), d))
SetNotOlderThanCall(d) ==
    VerifySetterCall("VerifyConfig.SetNotOlderThan", d,
                     VerifyConfig_SetNotOlderThan(VerifyCfgAt(heldVerify), d))
SetVerifyCreatedCall(b) ==
    VerifySetterCall("VerifyConfig.SetVerifyCreated", b,
                     VerifyConfig_SetVerifyCreated(VerifyCfgAt(heldVerify), b))
SetRejectExpiredCall(b) ==
    VerifySetterCall("VerifyConfig.SetRejectExpired", b,
                     VerifyConfig_SetRejectExpired(VerifyCfgAt(heldVerify), b))
SetAllowedAlgsCall(algs) ==
    VerifySetterCall("VerifyConfig.SetAllowedAlgs", algs,
                     VerifyConfig_SetAllowedAlgs(VerifyCfgAt(heldVerify), algs))
VerifySetRequestResponseCall(name, signature) ==
    VerifySetterCall("VerifyConfig.SetRequestResponse", <<name, signature>>,
                     VerifyConfig_SetRequestResponse(VerifyCfgAt(heldVerify), name, signature))
SetVerifyKeyIDCall(b) ==
    VerifySetterCall("VerifyConfig.SetVerifyKeyID", b,
                     VerifyConfig_SetVerifyKeyID(VerifyCfgAt(heldVerify), b))
SetVerifyDateWithinCall(d) ==
    VerifySetterCall("VerifyConfig.SetVerifyDateWithin", d,
                     VerifyConfig_SetVerifyDateWithin(VerifyCfgAt(heldVerify), d))

\* key[n] = x: the caller overwrites bytes of array a, whose content becomes x.
WriteKeyCall(a, x) ==
    /\ keyMem[a].len > 0
    /\ keyMem[a].bytes # x
    /\ keyMem' = [keyMem EXCEPT ![a].bytes = x]
    /\ ret' = Call("write key", <<>>, a, "")
    /\ UNCHANGED <<signCfgs, verifyCfgs, heldSign, heldVerify, signers,
                   verifiers, wire>>

-----------------------------------------------------------------------------
(* The HTTP client and the test server of TestClient_Get *)

\* Mutant of simpleHandler: every request is answered 200.
simpleHandler_Always200(RequestURI) == 200

\* simpleHandler: 200 for "/", 404 for any other request URI.
simpleHandler(RequestURI) == IF RequestURI = "/" THEN 200 ELSE 404

\* res.Status of a response with this status code.
StatusOf(code) == IF code = 200 THEN "200 OK" ELSE "404 Not Found"

\* The request URI of GET ts.URL + url: an empty path is sent as "/".
RequestURIOf(url) == IF url = "" THEN "/" ELSE url

\* Signing a request under a signature name: an empty name is an error;
\* otherwise the signature base is built and handed to Signer.sign.
signRequest(signatureName, s, base, rnd) ==
    IF signatureName = ""
    THEN [err |-> "empty signature name"]
    ELSE LET r == sign(s, base, rnd)
         IN  IF r.panic \/ r.err # ""
             THEN [err |-> "failed to sign request"]
             ELSE [err |-> ""]

\* Client.Get(url) for a Client{SignatuerName, Signer} with no Verifier:
\* the request is signed, then sent; the server's response is returned.
ClientGet(c, url, base, rnd) ==
    LET signed == signRequest(c.SignatuerName, signers[c.Signer], base, rnd)
    IN  IF signed.err # ""
        THEN [status |-> "", err |-> signed.err]
        ELSE [status |-> StatusOf(simpleHandler(RequestURIOf(url))), err |-> ""]

\* res, err := c.Get(ts.URL + url)
ClientGetCall(c, url, base, rnd) ==
    LET r == ClientGet(c, url, base, rnd)
    IN  /\ ret' = [Call("Client.Get",
                        [name |-> c.SignatuerName, signer |-> c.Signer, url |-> url],
                        NilRef, r.err)
                     EXCEPT !.ok = r.err = "", !.status = r.status]
        /\ UNCHANGED <<keyMem, signCfgs, verifyCfgs, heldSign, heldVerify,
                       signers, verifiers, wire>>

-----------------------------------------------------------------------------
(* The state before any call *)

NoWire == [sent |-> FALSE]

Init ==
    /\ keyMem = KeyArrays
    /\ signCfgs = <<>>
    /\ verifyCfgs = <<>>
    /\ heldSign = NilRef
    /\ heldVerify = NilRef
    /\ signers = <<>>
    /\ verifiers = <<>>
    /\ wire = NoWire
    /\ ret = Call("none", <<>>, NilRef, "")

-----------------------------------------------------------------------------
(* Constructor runs: every constructor, with good and bad arguments *)

RSAPrivArgs == {NilKey} \cup {RSAPrivateKey(p) : p \in {1}}
RSAPubArgs == {NilKey} \cup {RSAPublicKey(p) : p \in {1}}
ECDSAPrivArgs == {NilKey} \cup {ECDSAPrivateKey(p) : p \in {1}}
ECDSAPubArgs == {NilKey} \cup {ECDSAPublicKey(p) : p \in {1}}

NextCtor ==
    \/ \E keyID \in KeyIDs, a \in ByteSlices :
         /\ Len(signers) < MaxObjs
         /\ NewHMACSHA256SignerCall(keyID, BytesKey(a), NilRef, <<"@method">>)
    \/ \E keyID \in KeyIDs, k \in RSAPrivArgs :
         /\ Len(signers) < MaxObjs
         /\ NewRSASignerCall(keyID, k, NilRef, <<"@method">>)
    \/ \E keyID \in KeyIDs, k \in RSAPrivArgs :
         /\ Len(signers) < MaxObjs
         /\ NewRSAPSSSignerCall(keyID, k, NilRef, <<"@method">>)
    \/ \E keyID \in KeyIDs, k \in ECDSAPrivArgs :
         /\ Len(signers) < MaxObjs
         /\ NewP256SignerCall(keyID, k, NilRef, <<"@method">>)
    \/ \E keyID \in KeyIDs, a \in ByteSlices :
         /\ Len(verifiers) < MaxObjs
         /\ NewHMACSHA256VerifierCall(keyID, BytesKey(a), NilRef, <<"@method">>)
    \/ \E keyID \in KeyIDs, k \in RSAPubArgs :
         /\ Len(verifiers) < MaxObjs
         /\ NewRSAVerifierCall(keyID, k, NilRef, <<"@method">>)
    \/ \E keyID \in KeyIDs, k \in RSAPubArgs :
         /\ Len(verifiers) < MaxObjs
         /\ NewRSAPSSVerifierCall(keyID, k, NilRef, <<"@method">>)
    \/ \E keyID \in KeyIDs, k \in ECDSAPubArgs :
         /\ Len(verifiers) < MaxObjs
         /\ NewP256VerifierCall(keyID, k, NilRef, <<"@method">>)

SpecCtor == Init /\ [][NextCtor]_vars

-----------------------------------------------------------------------------
(* Crypto runs: objects built from valid arguments, sign, tamper, verify *)

NextCrypto ==
    \/ \E a \in SignerSlices :
         /\ Len(signers) < MaxObjs
         /\ NewHMACSHA256SignerCall("key1", BytesKey(a), NilRef, <<"@method">>)
    \/ \E p \in {1} :
         /\ Len(signers) < MaxObjs
         /\ NewRSASignerCall("key1", RSAPrivateKey(p), NilRef, <<"@method">>)
    \/ \E p \in {1} :
         /\ Len(signers) < MaxObjs
         /\ NewRSAPSSSignerCall("key1", RSAPrivateKey(p), NilRef, <<"@method">>)
    \/ \E p \in {1} :
         /\ Len(signers) < MaxObjs
         /\ NewP256SignerCall("key1", ECDSAPrivateKey(p), NilRef, <<"@method">>)
    \/ \E a \in VerifierSlices :
         /\ Len(verifiers) < MaxObjs
         /\ NewHMACSHA256VerifierCall("key1", BytesKey(a), NilRef, <<"@method">>)
    \/ \E p \in {1} :
         /\ Len(verifiers) < MaxObjs
         /\ NewRSAVerifierCall("key1", RSAPublicKey(p), NilRef, <<"@method">>)
    \/ \E p \in {1} :
         /\ Len(verifiers) < MaxObjs
         /\ NewRSAPSSVerifierCall("key1", RSAPublicKey(p), NilRef, <<"@method">>)
    \/ \E p \in {1} :
         /\ Len(verifiers) < MaxObjs
         /\ NewP256VerifierCall("key1", ECDSAPublicKey(p), NilRef, <<"@method">>)
    \/ \E i \in DOMAIN signers, buff \in Buffs, rnd \in RandVals :
         SignCall(i, buff, rnd)
    \/ TamperSignature
    \/ \E buff \in Buffs : TamperMessage(buff)
    \/ \E j \in DOMAIN verifiers : VerifyCall(j)

Spec == Init /\ [][NextCrypto]_vars

-----------------------------------------------------------------------------
(* Algorithm runs: every constructor, with a nil key or a key of its      *)
(* parameter's type, and sign and verify on what was built                *)

NextAlg ==
    \/ \E a \in {NilRef, 1} :
         /\ Len(signers) < MaxObjs
         /\ NewHMACSHA256SignerCall("key1", BytesKey(a), NilRef, <<"@method">>)
    \/ \E k \in RSAPrivArgs :
         /\ Len(signers) < MaxObjs
         /\ NewRSASignerCall("key1", k, NilRef, <<"@method">>)
    \/ \E k \in RSAPrivArgs :
         /\ Len(signers) < MaxObjs
         /\ NewRSAPSSSignerCall("key1", k, NilRef, <<"@method">>)
    \/ \E k \in ECDSAPrivArgs :
         /\ Len(signers) < MaxObjs
         /\ NewP256SignerCall("key1", k, NilRef, <<"@method">>)
    \/ \E a \in {NilRef, 1} :
         /\ Len(verifiers) < MaxObjs
         /\ NewHMACSHA256VerifierCall("key1", BytesKey(a), NilRef, <<"@method">>)
    \/ \E k \in RSAPubArgs :
         /\ Len(verifiers) < MaxObjs
         /\ NewRSAVerifierCall("key1", k, NilRef, <<"@method">>)
    \/ \E k \in RSAPubArgs :
         /\ Len(verifiers) < MaxObjs
         /\ NewRSAPSSVerifierCall("key1", k, NilRef, <<"@method">>)
    \/ \E k \in ECDSAPubArgs :
         /\ Len(verifiers) < MaxObjs
         /\ NewP256VerifierCall("key1", k, NilRef, <<"@method">>)
    \/ \E i \in DOMAIN signers, buff \in Buffs :
         SignCall(i, buff, 1)
    \/ \E j \in DOMAIN verifiers : VerifyCall(j)

SpecAlg == Init /\ [][NextAlg]_vars

-----------------------------------------------------------------------------
(* Configuration runs *)

Timestamps == {0, 1618884475}
Nonces == {"", "n1"}
NotNewerVals == {Second, 2 * Second}
NotOlderVals == {Second, 10 * Second}
DateWithinVals == {0, Second}
AlgLists == {<<>>, <<"hmac-sha256">>}

\* The signer side: the caller's SignConfig, its setters, Signers built with
\* it or with a nil config, and writes to the key bytes handed over.
NextSignConfig ==
    \/ NewSignConfigCall
    \/ \E b \in BOOLEAN : SignAlgCall(b)
    \/ \E b \in BOOLEAN : SignCreatedCall(b)
    \/ \E ts \in Timestamps : setFakeCreatedCall(ts)
    \/ \E ts \in Timestamps : SetExpiresCall(ts)
    \/ \E n \in Nonces : SetNonceCall(n)
    \/ SignSetRequestResponseCall("sig1", "c2ln")
    \/ \E config \in {NilRef, heldSign} :
         /\ Len(signers) < MaxCfgObjs
         /\ NewHMACSHA256SignerCall("key1", BytesKey(1), config, <<"@method">>)
    \/ \E config \in {NilRef, heldSign} :
         /\ Len(signers) < MaxCfgObjs
         /\ NewP256SignerCall("key1", ECDSAPrivateKey(1), config, <<"@method">>)
    \/ \E x \in {1, 2} : WriteKeyCall(1, x)

SpecSignConfig == Init /\ [][NextSignConfig]_vars

\* The verifier side: the caller's VerifyConfig, its setters, and Verifiers
\* built with a nil config.
NextVerifyConfig ==
    \/ NewVerifyConfigCall
    \/ \E d \in NotNewerVals : SetNotNewerThanCall(d)
    \/ \E d \in NotOlderVals : SetNotOlderThanCall(d)
    \/ \E b \in BOOLEAN : SetVerifyCreatedCall(b)
    \/ \E b \in BOOLEAN : SetRejectExpiredCall(b)
    \/ \E algs \in AlgLists : SetAllowedAlgsCall(algs)
    \/ VerifySetRequestResponseCall("sig1", "c2ln")
    \/ \E b \in BOOLEAN : SetVerifyKeyIDCall(b)
    \/ \E d \in DateWithinVals : SetVerifyDateWithinCall(d)
    \/ \E a \in {1, 2} :
         /\ Len(verifiers) < MaxCfgObjs
         /\ NewHMACSHA256VerifierCall("key1", BytesKey(a), NilRef, <<"@method">>)
    \/ /\ Len(verifiers) < MaxCfgObjs
       /\ NewP256VerifierCall("key1", ECDSAPublicKey(1), NilRef, <<"@method">>)

SpecVerifyConfig == Init /\ [][NextVerifyConfig]_vars

\* Setter runs: every setter of both configuration types, next to the
\* configurations of objects built with a nil config.  A run configures one
\* side, a SignConfig or a VerifyConfig.
NextSetters ==
    \/ /\ heldVerify = NilRef
       /\ NewSignConfigCall
    \/ /\ heldSign = NilRef
       /\ NewVerifyConfigCall
    \/ \E b \in BOOLEAN : SignAlgCall(b)
    \/ \E b \in BOOLEAN : SignCreatedCall(b)
    \/ \E ts \in Timestamps : setFakeCreatedCall(ts)
    \/ \E ts \in Timestamps : SetExpiresCall(ts)
    \/ \E n \in Nonces : SetNonceCall(n)
    \/ \E name \in {"sig1", "sig2"} : SignSetRequestResponseCall(name, "c2ln")
    \/ \E d \in NotNewerVals : SetNotNewerThanCall(d)
    \/ \E d \in NotOlderVals : SetNotOlderThanCall(d)
    \/ \E b \in BOOLEAN : SetVerifyCreatedCall(b)
    \/ \E b \in BOOLEAN : SetRejectExpiredCall(b)
    \/ \E algs \in AlgLists : SetAllowedAlgsCall(algs)
    \/ \E name \in {"sig1", "sig2"} : VerifySetRequestResponseCall(name, "c2ln")
    \/ \E b \in BOOLEAN : SetVerifyKeyIDCall(b)
    \/ \E d \in DateWithinVals : SetVerifyDateWithinCall(d)
    \/ /\ Len(signers) < MaxObjs
       /\ NewHMACSHA256SignerCall("key1", BytesKey(1), NilRef, <<"@method">>)
    \/ /\ Len(verifiers) < MaxObjs
       /\ NewHMACSHA256VerifierCall("key1", BytesKey(1), NilRef, <<"@method">>)

SpecSetters == Init /\ [][NextSetters]_vars

-----------------------------------------------------------------------------
(* Client runs: Signers built from valid arguments, and Client.Get *)

SignatureNames == {"", "sig1"}
URLs == {"", "/thisaintaurl"}

NextClient ==
    \/ \E keyID \in {"key1", "key2"}, a \in GoodSlices, f \in FieldLists :
         /\ Len(signers) < MaxObjs
         /\ NewHMACSHA256SignerCall(keyID, BytesKey(a), NilRef, f)
    \/ \E keyID \in {"key1", "key2"}, p \in KeyPairs, f \in FieldLists :
         /\ Len(signers) < MaxObjs
         /\ NewRSASignerCall(keyID, RSAPrivateKey(p), NilRef, f)
    \/ \E keyID \in {"key1", "key2"}, p \in KeyPairs, f \in FieldLists :
         /\ Len(signers) < MaxObjs
         /\ NewRSAPSSSignerCall(keyID, RSAPrivateKey(p), NilRef, f)
    \/ \E keyID \in {"key1", "key2"}, p \in KeyPairs, f \in FieldLists :
         /\ Len(signers) < MaxObjs
         /\ NewP256SignerCall(keyID, ECDSAPrivateKey(p), NilRef, f)
    \/ \E name \in SignatureNames, i \in DOMAIN signers, url \in URLs,
          base \in Buffs, rnd \in RandVals :
         ClientGetCall([SignatuerName |-> name, Signer |-> i,
                        Verifier |-> NilRef], url, base, rnd)

SpecClient == Init /\ [][NextClient]_vars

-----------------------------------------------------------------------------
(* The crypto layer: claims C1 - C3 *)

\* The signer that produced what is in flight, and the verifier of the last
\* verify call.
WireSigner == signers[wire.signer]
RetVerifier == verifiers[ret.obj]

\* What arrived is what was signed.
Untampered == wire.buff = wire.signedBuff /\ wire.sig = wire.signedSig

\* Same algorithm, and the verifier's key is the signer's: the same bytes
\* for HMAC, the public half of the same key pair otherwise.
Matching(s, v) == s.alg = v.alg /\ KeyIdent(s.key) = KeyIdent(v.key)

\* C1: round trip at the crypto layer.  For each of the four algorithms, a
\* Signer's sign returns a signature and no error, and a Verifier built for
\* the same algorithm with the matching key, given the signed bytes and that
\* signature, returns true and no error.
C1_RoundTrip ==
    /\ ret.op = "sign" => ret.ok /\ ret.err = ""
    /\ (ret.op = "verify" /\ Untampered /\ Matching(WireSigner, RetVerifier))
         => (ret.ok /\ ret.err = "" /\ ret.status # "panic")

\* A randomised signature (RSA-PSS) made with one salt verified.
C1_Witness ==
    /\ ret.op = "verify"
    /\ Untampered
    /\ Matching(WireSigner, RetVerifier)
    /\ RetVerifier.alg = "rsa-pss-sha512"
    /\ wire.sig.salt = 2
    /\ ret.ok

\* C2: tamper detection is a signature mismatch for every algorithm: when
\* the signature or the signed bytes differ from what was signed, the
\* matching Verifier returns false with no error.
C2_TamperIsMismatch ==
    (ret.op = "verify" /\ ~Untampered /\ Matching(WireSigner, RetVerifier))
        => (~ret.ok /\ ret.err = "")

\* C3: wrong key with HMAC.  An hmac-sha256 Verifier holding key B, given
\* the signature an hmac-sha256 Signer holding a different key A made over
\* the same bytes, returns false with a nil error.
C3_WrongKeyHMAC ==
    (/\ ret.op = "verify"
     /\ Untampered
     /\ WireSigner.alg = "hmac-sha256"
     /\ RetVerifier.alg = "hmac-sha256"
     /\ KeyIdent(WireSigner.key) # KeyIdent(RetVerifier.key))
        => (~ret.ok /\ ret.err = "" /\ ret.status # "panic")

\* Signed with the key in array 1, verified with the key in array 2: 64
\* bytes each, of different content.
C3_Witness ==
    /\ ret.op = "verify"
    /\ Untampered
    /\ WireSigner.alg = "hmac-sha256"
    /\ RetVerifier.alg = "hmac-sha256"
    /\ WireSigner.key.id = 1
    /\ RetVerifier.key.id = 2
    /\ ~ret.ok
    /\ ret.err = ""

-----------------------------------------------------------------------------
(* Object lifecycle and configuration: claims C4 - C10 *)

\* What a Signer uses: its own fields, the bytes of its key and the
\* configuration its config pointer leads to.
SignerView(i) ==
    [keyID  |-> signers[i].keyID,
     alg    |-> signers[i].alg,
     fields |-> signers[i].fields,
     key    |-> KeyIdent(signers[i].key),
     config |-> signCfgs[signers[i].config]]

VerifierView(j) ==
    [keyID  |-> verifiers[j].keyID,
     alg    |-> verifiers[j].alg,
     fields |-> verifiers[j].f,
     key    |-> KeyIdent(verifiers[j].key),
     config |-> verifyCfgs[verifiers[j].c]]

\* C4: Signer and Verifier are immutable after construction: no later call
\* of the caller (a setter on the config object it passed, a write to the
\* key bytes it passed) changes the key, algorithm, field list or
\* configuration that a constructed Signer or Verifier uses.
C4_Immutable ==
    [][/\ \A i \in DOMAIN signers : SignerView(i)' = SignerView(i)
       /\ \A j \in DOMAIN verifiers : VerifierView(j)' = VerifierView(j)]_vars

HMACCtors == {"NewHMACSHA256Signer", "NewHMACSHA256Verifier"}
SignerCtors == {"NewHMACSHA256Signer", "NewRSASigner", "NewRSAPSSSigner",
                "NewP256Signer"}
VerifierCtors == {"NewHMACSHA256Verifier", "NewRSAVerifier",
                  "NewRSAPSSVerifier", "NewP256Verifier"}

\* C5: HMAC key length.  NewHMACSHA256Signer and NewHMACSHA256Verifier
\* return an error and a nil object when the key is nil or shorter than 64
\* bytes, no HMAC Signer or Verifier holds such a key, and a key of exactly
\* 64 bytes is accepted.
C5_HMACKeyLength ==
    /\ (ret.op \in HMACCtors /\ LenOf(ret.arg.key) < 64)
         => (ret.err # "" /\ ret.obj = NilRef)
    /\ \A i \in DOMAIN signers :
         signers[i].alg = "hmac-sha256"
           => (signers[i].key.kind = "bytes" /\ LenOf(signers[i].key) >= 64)
    /\ \A j \in DOMAIN verifiers :
         verifiers[j].alg = "hmac-sha256"
           => (verifiers[j].key.kind = "bytes" /\ LenOf(verifiers[j].key) >= 64)
    /\ (ret.op = "NewHMACSHA256Verifier" /\ LenOf(ret.arg.key) = 64)
         => (ret.err = "" /\ ret.obj # NilRef
             /\ verifiers[ret.obj].key = ret.arg.key)
    /\ (ret.op = "NewHMACSHA256Signer" /\ LenOf(ret.arg.key) = 64
        /\ ret.arg.keyID # "")
         => (ret.err = "" /\ ret.obj # NilRef
             /\ signers[ret.obj].key = ret.arg.key)

\* NewHMACSHA256Verifier was called with a 63-byte key and refused it.
C5_Witness ==
    /\ ret.op = "NewHMACSHA256Verifier"
    /\ ret.arg.key.kind = "bytes"
    /\ LenOf(ret.arg.key) = 63
    /\ ret.err = "key must be at least 64 bytes long"
    /\ ret.obj = NilRef

\* C6: an empty key id is a construction error.  Each of the four Signer
\* constructors, called with keyID "", returns an error and a nil Signer
\* whatever the key is; every Signer that exists has a non-empty keyID.
C6_EmptyKeyID ==
    /\ (ret.op \in SignerCtors /\ ret.arg.keyID = "")
         => (ret.err # "" /\ ret.obj = NilRef)
    /\ \A i \in DOMAIN signers : signers[i].keyID # ""

\* NewRSAPSSSigner was called with a key and an empty keyID, and refused.
C6_Witness ==
    /\ ret.op = "NewRSAPSSSigner"
    /\ ret.arg.keyID = ""
    /\ ret.arg.key # NilKey
    /\ ret.err = "keyID must not be empty"
    /\ ret.obj = NilRef

C9_DefaultSignConfig ==
    LET default == [signAlg         |-> TRUE,
                    signCreated     |-> TRUE,
                    fakeCreated     |-> 0,
                    expires         |-> 0,
                    nonce           |-> "",
                    requestResponse |-> [isNil |-> TRUE, name |-> "",
                                         signature |-> ""]]
    IN  /\ ret.op = "NewSignConfig" => signCfgs[ret.obj] = default
        /\ \A i \in DOMAIN signers :
             signers[i].config # heldSign
               => /\ signers[i].config \in DOMAIN signCfgs
                  /\ signCfgs[signers[i].config] = default
        /\ \A i, k \in DOMAIN signers :
             (i # k /\ signers[i].config # heldSign /\ signers[k].config # heldSign)
               => signers[i].config # signers[k].config

\* Two Signers built with nil, while the caller changed its own config.
C9_Witness ==
    /\ Len(signers) = 2
    /\ heldSign # NilRef
    /\ signers[1].config # heldSign
    /\ signers[2].config # heldSign
    /\ signCfgs[heldSign].nonce = "n1"
    /\ ret.op = "NewHMACSHA256Signer"
    /\ ret.arg.config = NilRef

\* C10: the not-newer-than window of a VerifyConfig on which
\* SetNotNewerThan was never called is 1,000 ms, as the documentation of
\* SetNotNewerThan states.
C10_DocumentedNotNewerThan ==
    ret.op = "NewVerifyConfig" => verifyCfgs[ret.obj].notNewerThan = 1000

-----------------------------------------------------------------------------
(* Algorithm and key type: claim C11 *)

Algs == {"hmac-sha256", "rsa-v1_5-sha256", "rsa-pss-sha512",
         "ecdsa-p256-sha256"}

\* The key a Signer of an algorithm needs, and the key a Verifier needs.
SignerKeyKind(alg) ==
    CASE alg = "hmac-sha256" -> "bytes"
      [] alg \in {"rsa-v1_5-sha256", "rsa-pss-sha512"} -> "rsa-priv"
      [] alg = "ecdsa-p256-sha256" -> "ecdsa-priv"
      [] OTHER -> "none"

VerifierKeyKind(alg) ==
    CASE alg = "hmac-sha256" -> "bytes"
      [] alg \in {"rsa-v1_5-sha256", "rsa-pss-sha512"} -> "rsa-pub"
      [] alg = "ecdsa-p256-sha256" -> "ecdsa-pub"
      [] OTHER -> "none"

\* C11: algorithm / key-type invariant.  Every Signer and every Verifier
\* that a constructor returned has one of the four algorithm identifiers
\* and holds a non-nil key of the type that algorithm requires; a
\* constructor called with a nil key returns an error and no object; sign
\* and verify on a constructed object never return the "unknown algorithm"
\* error and never fail a key type assertion.
C11_AlgorithmKeyType ==
    /\ \A i \in DOMAIN signers :
         /\ signers[i].alg \in Algs
         /\ signers[i].key # NilKey
         /\ signers[i].key.kind = SignerKeyKind(signers[i].alg)
    /\ \A j \in DOMAIN verifiers :
         /\ verifiers[j].alg \in Algs
         /\ verifiers[j].key # NilKey
         /\ verifiers[j].key.kind = VerifierKeyKind(verifiers[j].alg)
    /\ (ret.op \in SignerCtors \cup VerifierCtors /\ ret.arg.key = NilKey)
         => (ret.err # "" /\ ret.obj = NilRef)
    /\ ret.op \in {"sign", "verify"}
         => /\ ret.status # "panic"
            /\ ret.err \notin {"sign: unknown algorithm",
                               "verify: unknown algorithm"}

\* verify ran on an rsa-pss-sha512 Verifier, given what a Signer of another
\* algorithm had signed, and took the RSA-PSS branch.
C11_Witness ==
    /\ ret.op = "verify"
    /\ RetVerifier.alg = "rsa-pss-sha512"
    /\ RetVerifier.key.kind = "rsa-pub"
    /\ WireSigner.alg = "ecdsa-p256-sha256"
    /\ ret.err = "RSA-PSS verification failed: crypto/rsa: verification error"
    /\ ret.status = ""

-----------------------------------------------------------------------------
(* The setters: claim C12 *)

SignSetters == {"SignConfig.SignAlg", "SignConfig.SignCreated",
                "SignConfig.setFakeCreated", "SignConfig.SetExpires",
                "SignConfig.SetNonce", "SignConfig.SetRequestResponse"}
VerifySetters == {"VerifyConfig.SetNotNewerThan", "VerifyConfig.SetNotOlderThan",
                  "VerifyConfig.SetVerifyCreated", "VerifyConfig.SetRejectExpired",
                  "VerifyConfig.SetAllowedAlgs", "VerifyConfig.SetRequestResponse",
                  "VerifyConfig.SetVerifyKeyID", "VerifyConfig.SetVerifyDateWithin"}

SignFields == {"signAlg", "signCreated", "fakeCreated", "expires", "nonce",
               "requestResponse"}
VerifyFields == {"verifyCreated", "notNewerThan", "notOlderThan",
                 "rejectExpired", "allowedAlgs", "requestResponse",
                 "verifyKeyID", "dateWithin"}

\* The one field each setter names.
SetterField(op) ==
    CASE op = "SignConfig.SignAlg" -> "signAlg"
      [] op = "SignConfig.SignCreated" -> "signCreated"
      [] op = "SignConfig.setFakeCreated" -> "fakeCreated"
      [] op = "SignConfig.SetExpires" -> "expires"
      [] op = "SignConfig.SetNonce" -> "nonce"
      [] op = "SignConfig.SetRequestResponse" -> "requestResponse"
      [] op = "VerifyConfig.SetNotNewerThan" -> "notNewerThan"
      [] op = "VerifyConfig.SetNotOlderThan" -> "notOlderThan"
      [] op = "VerifyConfig.SetVerifyCreated" -> "verifyCreated"
      [] op = "VerifyConfig.SetRejectExpired" -> "rejectExpired"
      [] op = "VerifyConfig.SetAllowedAlgs" -> "allowedAlgs"
      [] op = "VerifyConfig.SetRequestResponse" -> "requestResponse"
      [] op = "VerifyConfig.SetVerifyKeyID" -> "verifyKeyID"
      [] op = "VerifyConfig.SetVerifyDateWithin" -> "dateWithin"

\* What the named field holds after a call with this argument: the
\* argument, or for SetRequestResponse the pair of its two arguments.
SetterValue(op, arg) ==
    IF SetterField(op) = "requestResponse"
    THEN [isNil |-> FALSE, name |-> arg[1], signature |-> arg[2]]
    ELSE arg

\* C12: setter frame and last write wins.  Each setter of SignConfig and of
\* VerifyConfig returns the config object it was called on, makes the one
\* field it names hold its argument, and leaves every other field of that
\* object, every other config object and the Signers and Verifiers as they
\* were; hence, by induction over the calls, each field holds the argument
\* of the last call of its own setter, or what the constructor put there.
C12_SetterFrame ==
    [][/\ ret'.op \in SignSetters =>
            /\ ret'.obj = heldSign
            /\ heldSign' = heldSign
            /\ DOMAIN signCfgs' = DOMAIN signCfgs
            /\ \A a \in DOMAIN signCfgs : \A f \in SignFields :
                 signCfgs'[a][f] =
                     IF a = heldSign /\ f = SetterField(ret'.op)
                     THEN SetterValue(ret'.op, ret'.arg)
                     ELSE signCfgs[a][f]
            /\ UNCHANGED <<verifyCfgs, heldVerify, signers, verifiers, keyMem>>
       /\ ret'.op \in VerifySetters =>
            /\ ret'.obj = heldVerify
            /\ heldVerify' = heldVerify
            /\ DOMAIN verifyCfgs' = DOMAIN verifyCfgs
            /\ \A a \in DOMAIN verifyCfgs : \A f \in VerifyFields :
                 verifyCfgs'[a][f] =
                     IF a = heldVerify /\ f = SetterField(ret'.op)
                     THEN SetterValue(ret'.op, ret'.arg)
                     ELSE verifyCfgs[a][f]
            /\ UNCHANGED <<signCfgs, heldSign, signers, verifiers, keyMem>>
      ]_vars

\* SetNotNewerThan was the last call, after SetNotOlderThan, SetAllowedAlgs,
\* SetVerifyKeyID and SetRequestResponse on the same object, next to the
\* configuration of a Verifier built with nil: each field holds what its
\* own setter was given.
C12_Witness ==
    /\ ret.op = "VerifyConfig.SetNotNewerThan"
    /\ ret.arg = 1000
    /\ ret.obj = heldVerify
    /\ Len(verifiers) = 1
    /\ verifiers[1].c # heldVerify
    /\ verifyCfgs[heldVerify] =
         [verifyCreated   |-> TRUE,
          notNewerThan    |-> 1000,
          notOlderThan    |-> 1000,
          rejectExpired   |-> TRUE,
          allowedAlgs     |-> <<"hmac-sha256">>,
          requestResponse |-> [isNil |-> FALSE, name |-> "sig2",
                               signature |-> "c2ln"],
          verifyKeyID     |-> FALSE,
          dateWithin      |-> 0]

=============================================================================
